---- MODULE Spec2Model ----
(***************************************************************************)
(* Model of the pomodoro terminal application (src/src/app.rs): the        *)
(* Dispatcher loop App::run, the key handlers of App and the menu state    *)
(* machine, together with the timer engine pomodoro_tui::Pomodoro the      *)
(* handlers call.  The timer engine's code is not part of app.rs; its      *)
(* operations are modelled from the design document (section 4.2).         *)
(***************************************************************************)
EXTENDS Integers, Sequences, FiniteSets, TLC

(***************************************************************************)
(* Bounds of the model.                                                    *)
(***************************************************************************)
\* A state in which a duration or a remaining time exceeds MaxMinutes minutes is
\* reached and checked, and no event is explored from it.  App::new is given
\* work_min = break_min = MaxMinutes, so that the menus can shorten a duration
\* (to the preset 2) and the extend menu can exceed it.
MaxMinutes == 3
\* The sounds/ directory holds at most MaxSounds audio files.
MaxSounds == 1
\* Key events, and Tick events while a menu is open, are handled only while the
\* active countdown is within KeyWindow seconds of a whole minute; with the menu
\* closed Tick events are handled at any time.
KeyWindow == 1
\* The counting specification counts at most MaxIdleTicks Tick events of a Paused timer.
MaxIdleTicks == 3
\* In the round-trip and the sound specification the sounds/ directory holds
\* at most MaxTripSounds audio files; in the round-trip specification Tick
\* events are handled only within KeyWindow seconds of a whole minute.
MaxTripSounds == 2
\* In the two-thread specification the channel holds at most MaxQueue events
\* and App::new is given work_min = break_min = BusMinutes.
MaxQueue == 2
BusMinutes == 1
\* In the EventSource specification the clock advances in steps of half a tick
\* period, and times are followed up to MaxLate steps beyond one tick period.
MaxLate == 2
\* In the zero-minutes specification App::new is given work_min and break_min
\* in 0..MaxZeroMinutes.
MaxZeroMinutes == 0

(***************************************************************************)
(* Program constants.                                                      *)
(***************************************************************************)
DURATION_PRESETS == <<2, 3, 4, 5, 10, 15, 20, 25, 30, 45, 60>>

\* tick_rate = 200 ms, in clock steps of 100 ms.
tick_rate == 2

\* The minutes App::new is given.
InitMinutes == {MaxMinutes}

\* DURATION_PRESETS.len()
PresetsLen == Len(DURATION_PRESETS)

\* DURATION_PRESETS[i] with the 0-based index of the code.
Preset(i) == DURATION_PRESETS[i + 1]

\* enum MenuState
MenuState == {"None", "MainMenu", "SelectWorkDuration", "SelectBreakDuration",
              "ExtendWorkSession", "SelectSound"}

\* The key codes the handlers distinguish; "other" is any key of the `_ => ()` arms.
KeyCode == {"s", "r", "c", "q", "Esc", "Up", "Down", "Enter", "other"}

VARIABLES
    pomo,            \* App.pomo: the timer engine (a record)
    exit,            \* App.exit
    menu_state,      \* App.menu_state
    menu_selection,  \* App.menu_selection
    sound_files,     \* the audio files of the sounds/ directory (ids; sorted by id)
    last,            \* history: the event App::run received last, and what check_and_switch returned
    prev,            \* history: the state in which that event was received
    start,           \* history: the last key event and the state after it (counting specification)
    n,               \* history: Tick events handled since then (counting specification)
    trip,            \* history: how far the SelectSound round trip has got (round-trip specification)
    escs,            \* history: the Esc keys handled in a row up to now, at most 3 (Esc specification)
    chan,            \* the events in the mpsc channel (App.tx to App.rx), oldest first
    pc,              \* App::run: the position of the Dispatcher in its loop
    cur,             \* App::run: the event rx.recv() returned
    draws,           \* history: terminal.draw calls since the last event was handled
    last2,           \* history: the event handled before the last one
    nsent,           \* history: events sent so far (modulo SeqMod)
    nrecv,           \* history: events received so far (modulo SeqMod)
    spc,             \* handle_inputs: the position of the EventSource thread in its loop
    elapsed,         \* handle_inputs: last_tick.elapsed(), in clock steps
    timeout,         \* handle_inputs: what is left of the timeout of event::poll
    since_sent,      \* history: clock steps since the last Tick was sent (-1: none sent)
    gap,             \* history: the times of the last Tick sent
    iter             \* history: the events sent in the current iteration of the loop

\* The history variables of the round-trip specification.
tripvars == <<trip>>

\* The channel, the Dispatcher's position and the history of the two-thread
\* specification.
busvars == <<chan, pc, cur, draws, last2, nsent, nrecv>>

\* The fields of App the handlers read and write.
appvars == <<pomo, exit, menu_state, menu_selection>>

\* The EventSource thread's loop and its history (EventSource specification).
srcvars == <<spc, elapsed, timeout, since_sent, gap, iter>>

\* The variables only one of the further specifications uses.
aux == <<tripvars, escs, busvars, srcvars>>

vars == <<pomo, exit, menu_state, menu_selection, sound_files, last, prev, start, n, aux>>

(***************************************************************************)
(* Durations: (minutes, seconds) pairs.                                    *)
(***************************************************************************)
Secs(d) == 60 * d[1] + d[2]

\* One second less, borrowing a minute as 60 seconds; never below (0,0).
\* (With InitMinutes >= 1 a Running countdown is never at (0,0) before the call.)
DecSecond(d) ==
    IF d[2] > 0 THEN <<d[1], d[2] - 1>>
    ELSE IF d[1] > 0 THEN <<d[1] - 1, 59>>
    ELSE <<0, 0>>

(***************************************************************************)
(* pomodoro_tui::Pomodoro, the timer engine.                               *)
(***************************************************************************)
Pomodoro_new(work, brk, sound, auto) ==
    [ phase          |-> "Work",
      run_state      |-> "Paused",
      work_duration  |-> work,
      break_duration |-> brk,
      work_remaining |-> work,
      break_remaining|-> brk,
      auto_start     |-> auto,
      sound_path     |-> sound ]

start_or_pause(p) ==
    [p EXCEPT !.run_state = IF @ = "Running" THEN "Paused" ELSE "Running"]

reset(p) ==
    [p EXCEPT !.work_remaining = p.work_duration,
              !.break_remaining = p.break_duration,
              !.run_state = "Paused"]

\* check_and_switch(): the engine after the call, and the value returned.
check_and_switch(p) ==
    IF p.run_state = "Paused" THEN [pomo |-> p, ended |-> FALSE]
    ELSE IF p.phase = "Work" THEN
        LET w == DecSecond(p.work_remaining) IN
        IF w = <<0, 0>>
        THEN [pomo |-> [p EXCEPT !.work_remaining = w,
                                 !.phase = "Break",
                                 !.run_state = "Paused"],
              ended |-> TRUE]
        ELSE [pomo |-> [p EXCEPT !.work_remaining = w], ended |-> FALSE]
    ELSE
        LET b == DecSecond(p.break_remaining) IN
        IF b = <<0, 0>>
        THEN [pomo |-> [p EXCEPT !.break_remaining = p.break_duration,
                                 !.phase = "Work",
                                 !.work_remaining = p.work_duration,
                                 !.run_state = IF p.auto_start THEN "Running"
                                               ELSE "Paused"],
              ended |-> FALSE]
        ELSE [pomo |-> [p EXCEPT !.break_remaining = b], ended |-> FALSE]

toggle_auto_start(p) == [p EXCEPT !.auto_start = ~@]

set_work_duration(p, minutes) ==
    [p EXCEPT !.work_duration = <<minutes, 0>>,
              !.work_remaining = <<minutes, 0>>]

set_break_duration(p, minutes) ==
    [p EXCEPT !.break_duration = <<minutes, 0>>,
              !.break_remaining = <<minutes, 0>>]

extend_work_session(p, minutes) ==
    [p EXCEPT !.phase = "Work",
              !.work_remaining = <<minutes, 0>>,
              !.run_state = "Running"]

set_sound(p, path) == [p EXCEPT !.sound_path = path]

(***************************************************************************)
(* App::get_sound_files: the audio files of sounds/, sorted.               *)
(***************************************************************************)
RECURSIVE SortedSeq(_)
SortedSeq(S) ==
    IF S = {} THEN <<>>
    ELSE LET m == CHOOSE x \in S : \A y \in S : x <= y
         IN <<m>> \o SortedSeq(S \ {m})

get_sound_files == SortedSeq(sound_files)

(***************************************************************************)
(* App::handle_menu_selection (Enter in a menu), one definition per arm of *)
(* its match on menu_state.                                                *)
(***************************************************************************)
\* Mutant: entry 3 opens SelectSound and leaves the selection at 3.
handle_menu_selection_MainMenu_keeps_selection ==
    CASE menu_selection = 0 ->
            /\ menu_state' = "SelectWorkDuration"
            /\ menu_selection' = 0
            /\ UNCHANGED pomo
      [] menu_selection = 1 ->
            /\ menu_state' = "SelectBreakDuration"
            /\ menu_selection' = 0
            /\ UNCHANGED pomo
      [] menu_selection = 2 ->
            /\ pomo' = toggle_auto_start(pomo)
            /\ UNCHANGED <<menu_state, menu_selection>>
      [] menu_selection = 3 ->
            /\ menu_state' = "SelectSound"
            /\ UNCHANGED <<pomo, menu_selection>>
      [] menu_selection = 4 ->
            /\ menu_state' = "None"
            /\ UNCHANGED <<pomo, menu_selection>>
      [] OTHER -> UNCHANGED <<pomo, menu_state, menu_selection>>

handle_menu_selection_MainMenu ==
    CASE menu_selection = 0 ->
            /\ menu_state' = "SelectWorkDuration"
            /\ menu_selection' = 0
            /\ UNCHANGED pomo
      [] menu_selection = 1 ->
            /\ menu_state' = "SelectBreakDuration"
            /\ menu_selection' = 0
            /\ UNCHANGED pomo
      [] menu_selection = 2 ->
            /\ pomo' = toggle_auto_start(pomo)
            /\ UNCHANGED <<menu_state, menu_selection>>
      [] menu_selection = 3 ->
            /\ menu_state' = "SelectSound"
            /\ menu_selection' = 0
            /\ UNCHANGED pomo
      [] menu_selection = 4 ->
            /\ menu_state' = "None"
            /\ UNCHANGED <<pomo, menu_selection>>
      [] OTHER -> UNCHANGED <<pomo, menu_state, menu_selection>>

\* Mutant: the work menu calls extend_work_session, not set_work_duration.
handle_menu_selection_SelectWorkDuration_extends ==
    IF menu_selection < PresetsLen
    THEN /\ pomo' = extend_work_session(pomo, Preset(menu_selection))
         /\ menu_state' = "MainMenu"
         /\ menu_selection' = 0
    ELSE UNCHANGED <<pomo, menu_state, menu_selection>>

handle_menu_selection_SelectWorkDuration ==
    IF menu_selection < PresetsLen
    THEN /\ pomo' = set_work_duration(pomo, Preset(menu_selection))
         /\ menu_state' = "MainMenu"
         /\ menu_selection' = 0
    ELSE UNCHANGED <<pomo, menu_state, menu_selection>>

\* Mutant: the break menu commits the preset as the work duration.
handle_menu_selection_SelectBreakDuration_sets_work ==
    IF menu_selection < PresetsLen
    THEN /\ pomo' = set_work_duration(pomo, Preset(menu_selection))
         /\ menu_state' = "MainMenu"
         /\ menu_selection' = 0
    ELSE UNCHANGED <<pomo, menu_state, menu_selection>>

handle_menu_selection_SelectBreakDuration ==
    IF menu_selection < PresetsLen
    THEN /\ pomo' = set_break_duration(pomo, Preset(menu_selection))
         /\ menu_state' = "MainMenu"
         /\ menu_selection' = 0
    ELSE UNCHANGED <<pomo, menu_state, menu_selection>>

\* Mutant: extending also commits the preset as the work duration.
handle_menu_selection_ExtendWorkSession_commits ==
    IF menu_selection < PresetsLen
    THEN /\ pomo' = extend_work_session(
                        set_work_duration(pomo, Preset(menu_selection)),
                        Preset(menu_selection))
         /\ menu_state' = "None"
         /\ UNCHANGED menu_selection
    ELSE /\ pomo' = start_or_pause(pomo)
         /\ menu_state' = "None"
         /\ UNCHANGED menu_selection

handle_menu_selection_ExtendWorkSession ==
    IF menu_selection < PresetsLen
    THEN /\ pomo' = extend_work_session(pomo, Preset(menu_selection))
         /\ menu_state' = "None"
         /\ UNCHANGED menu_selection
    ELSE /\ pomo' = start_or_pause(pomo)
         /\ menu_state' = "None"
         /\ UNCHANGED menu_selection

\* Mutant: Enter in SelectSound goes back to MainMenu also without a file.
handle_menu_selection_SelectSound_always_returns ==
    LET files == get_sound_files IN
    IF files # <<>> /\ menu_selection < Len(files)
    THEN /\ pomo' = set_sound(pomo, files[menu_selection + 1])
         /\ menu_state' = "MainMenu"
         /\ menu_selection' = 0
    ELSE /\ menu_state' = "MainMenu"
         /\ menu_selection' = 0
         /\ UNCHANGED pomo

handle_menu_selection_SelectSound ==
    LET files == get_sound_files IN
    IF files # <<>> /\ menu_selection < Len(files)
    THEN /\ pomo' = set_sound(pomo, files[menu_selection + 1])
         /\ menu_state' = "MainMenu"
         /\ menu_selection' = 0
    ELSE UNCHANGED <<pomo, menu_state, menu_selection>>

handle_menu_selection ==
    CASE menu_state = "MainMenu" -> handle_menu_selection_MainMenu
      [] menu_state = "SelectWorkDuration" -> handle_menu_selection_SelectWorkDuration
      [] menu_state = "SelectBreakDuration" -> handle_menu_selection_SelectBreakDuration
      [] menu_state = "ExtendWorkSession" -> handle_menu_selection_ExtendWorkSession
      [] menu_state = "SelectSound" -> handle_menu_selection_SelectSound
      [] OTHER -> UNCHANGED <<pomo, menu_state, menu_selection>>

(***************************************************************************)
(* App::handle_menu_key_event.                                             *)
(***************************************************************************)
\* Mutant: the duration menus take the number of presets as the last index.
max_items_off_by_one ==
    CASE menu_state = "MainMenu" -> 4
      [] menu_state \in {"SelectWorkDuration", "SelectBreakDuration"} -> PresetsLen
      [] menu_state = "ExtendWorkSession" -> PresetsLen
      [] menu_state = "SelectSound" ->
            LET sound_count == Len(get_sound_files)
            IN IF sound_count > 0 THEN sound_count - 1 ELSE 0
      [] OTHER -> 0

\* max_items of the Down arm: the largest selectable index of the open menu.
max_items ==
    CASE menu_state = "MainMenu" -> 4
      [] menu_state \in {"SelectWorkDuration", "SelectBreakDuration"} -> PresetsLen - 1
      [] menu_state = "ExtendWorkSession" -> PresetsLen
      [] menu_state = "SelectSound" ->
            LET sound_count == Len(get_sound_files)
            IN IF sound_count > 0 THEN sound_count - 1 ELSE 0
      [] OTHER -> 0

\* Mutant: Esc in ExtendWorkSession only closes the menu.
handle_menu_key_event_Esc_cancels ==
    CASE menu_state = "MainMenu" ->
            /\ menu_state' = "None"
            /\ UNCHANGED <<pomo, exit, menu_selection>>
      [] menu_state \in {"SelectWorkDuration", "SelectBreakDuration", "SelectSound"} ->
            /\ menu_state' = "MainMenu"
            /\ menu_selection' = 0
            /\ UNCHANGED <<pomo, exit>>
      [] menu_state = "ExtendWorkSession" ->
            /\ menu_state' = "None"
            /\ UNCHANGED <<pomo, exit, menu_selection>>
      [] OTHER -> UNCHANGED <<pomo, exit, menu_state, menu_selection>>

\* Mutant: Esc in a submenu goes back to MainMenu and keeps the selection.
handle_menu_key_event_Esc_keeps_selection ==
    CASE menu_state = "MainMenu" ->
            /\ menu_state' = "None"
            /\ UNCHANGED <<pomo, exit, menu_selection>>
      [] menu_state \in {"SelectWorkDuration", "SelectBreakDuration", "SelectSound"} ->
            /\ menu_state' = "MainMenu"
            /\ UNCHANGED <<pomo, exit, menu_selection>>
      [] menu_state = "ExtendWorkSession" ->
            /\ pomo' = start_or_pause(pomo)
            /\ menu_state' = "None"
            /\ UNCHANGED <<exit, menu_selection>>
      [] OTHER -> UNCHANGED <<pomo, exit, menu_state, menu_selection>>

\* The Esc arm: go back, close the menu, or start the break.
handle_menu_key_event_Esc ==
    CASE menu_state = "MainMenu" ->
            /\ menu_state' = "None"
            /\ UNCHANGED <<pomo, exit, menu_selection>>
      [] menu_state \in {"SelectWorkDuration", "SelectBreakDuration", "SelectSound"} ->
            /\ menu_state' = "MainMenu"
            /\ menu_selection' = 0
            /\ UNCHANGED <<pomo, exit>>
      [] menu_state = "ExtendWorkSession" ->
            /\ pomo' = start_or_pause(pomo)
            /\ menu_state' = "None"
            /\ UNCHANGED <<exit, menu_selection>>
      [] OTHER -> UNCHANGED <<pomo, exit, menu_state, menu_selection>>

handle_menu_key_event(code) ==
    CASE code = "Up" ->
            /\ menu_selection' = IF menu_selection > 0 THEN menu_selection - 1
                                 ELSE menu_selection
            /\ UNCHANGED <<pomo, exit, menu_state>>
      [] code = "Down" ->
            /\ menu_selection' = IF menu_selection < max_items THEN menu_selection + 1
                                 ELSE menu_selection
            /\ UNCHANGED <<pomo, exit, menu_state>>
      [] code = "Enter" ->
            /\ handle_menu_selection
            /\ UNCHANGED exit
      [] code = "Esc" -> handle_menu_key_event_Esc
      [] OTHER -> UNCHANGED <<pomo, exit, menu_state, menu_selection>>

(***************************************************************************)
(* App::handle_key_event.                                                  *)
(***************************************************************************)
\* Mutant: the 'r' arm toggles start/pause (the 's' arm's call) after the reset.
handle_normal_key_r_toggles(code) ==
    CASE code = "s" ->
            /\ pomo' = start_or_pause(pomo)
            /\ UNCHANGED <<exit, menu_state, menu_selection>>
      [] code = "r" ->
            /\ pomo' = start_or_pause(reset(pomo))
            /\ UNCHANGED <<exit, menu_state, menu_selection>>
      [] code = "c" ->
            /\ menu_state' = "MainMenu"
            /\ menu_selection' = 0
            /\ UNCHANGED <<pomo, exit>>
      [] code \in {"Esc", "q"} ->
            /\ exit' = TRUE
            /\ UNCHANGED <<pomo, menu_state, menu_selection>>
      [] OTHER -> UNCHANGED <<pomo, exit, menu_state, menu_selection>>

\* The else branch: the hotkeys of the closed menu.
handle_normal_key(code) ==
    CASE code = "s" ->
            /\ pomo' = start_or_pause(pomo)
            /\ UNCHANGED <<exit, menu_state, menu_selection>>
      [] code = "r" ->
            /\ pomo' = reset(pomo)
            /\ UNCHANGED <<exit, menu_state, menu_selection>>
      [] code = "c" ->
            /\ menu_state' = "MainMenu"
            /\ menu_selection' = 0
            /\ UNCHANGED <<pomo, exit>>
      [] code \in {"Esc", "q"} ->
            /\ exit' = TRUE
            /\ UNCHANGED <<pomo, menu_state, menu_selection>>
      [] OTHER -> UNCHANGED <<pomo, exit, menu_state, menu_selection>>

\* Mutant: 's' starts and pauses the timer whether or not a menu is open.
handle_key_event_s_in_menu(code) ==
    IF menu_state # "None" /\ code # "s"
    THEN handle_menu_key_event(code)
    ELSE handle_normal_key(code)

\* Mutant: 'q' quits whether or not a menu is open.
handle_key_event_q_always_quits(code) ==
    IF menu_state # "None" /\ code # "q"
    THEN handle_menu_key_event(code)
    ELSE handle_normal_key(code)

handle_key_event(code) ==
    IF menu_state # "None"
    THEN handle_menu_key_event(code)
    ELSE handle_normal_key(code)

\* The fields of App the handlers read and write, as one value.
Snapshot(p, ms, sel) == [pomo |-> p, menu_state |-> ms, menu_selection |-> sel]

(***************************************************************************)
(* App::run, the Tick arm.                                                 *)
(***************************************************************************)
\* Mutant: events are handled also after the exit flag is set.
RecvKey_after_exit(code) ==
    /\ handle_key_event(code)
    /\ last' = [ev |-> code, ended |-> FALSE]
    /\ prev' = Snapshot(pomo, menu_state, menu_selection)
    /\ UNCHANGED sound_files

\* Mutant: a work-session-ended Tick starts the break and opens no menu.
handle_tick_starts_break ==
    LET r == check_and_switch(pomo) IN
    /\ pomo' = IF r.ended THEN start_or_pause(r.pomo) ELSE r.pomo
    /\ UNCHANGED <<menu_state, menu_selection>>
    /\ UNCHANGED exit
    /\ last' = [ev |-> "Tick", ended |-> r.ended]
    /\ prev' = Snapshot(pomo, menu_state, menu_selection)

\* Mutant: a work-session-ended Tick leaves the menu as it is.
handle_tick_keeps_menu ==
    LET r == check_and_switch(pomo) IN
    /\ pomo' = r.pomo
    /\ UNCHANGED <<menu_state, menu_selection>>
    /\ UNCHANGED exit
    /\ last' = [ev |-> "Tick", ended |-> r.ended]
    /\ prev' = Snapshot(pomo, menu_state, menu_selection)

\* Mutant: a Tick reaches the timer only while the menu is closed.
handle_tick_menu_closed_only ==
    LET r == IF menu_state = "None" THEN check_and_switch(pomo)
             ELSE [pomo |-> pomo, ended |-> FALSE] IN
    /\ pomo' = r.pomo
    /\ IF r.ended
       THEN /\ menu_state' = "ExtendWorkSession"
            /\ menu_selection' = 0
       ELSE UNCHANGED <<menu_state, menu_selection>>
    /\ UNCHANGED exit
    /\ last' = [ev |-> "Tick", ended |-> r.ended]
    /\ prev' = Snapshot(pomo, menu_state, menu_selection)

\* Mutant: the extend menu opens on every phase switch, also at the end of a break.
handle_tick_menu_on_any_switch ==
    LET r == check_and_switch(pomo) IN
    /\ pomo' = r.pomo
    /\ IF r.pomo.phase # pomo.phase
       THEN /\ menu_state' = "ExtendWorkSession"
            /\ menu_selection' = 0
       ELSE UNCHANGED <<menu_state, menu_selection>>
    /\ UNCHANGED exit
    /\ last' = [ev |-> "Tick", ended |-> r.ended]
    /\ prev' = Snapshot(pomo, menu_state, menu_selection)

handle_tick ==
    LET r == check_and_switch(pomo) IN
    /\ pomo' = r.pomo
    /\ IF r.ended
       THEN /\ menu_state' = "ExtendWorkSession"
            /\ menu_selection' = 0
       ELSE UNCHANGED <<menu_state, menu_selection>>
    /\ UNCHANGED exit
    /\ last' = [ev |-> "Tick", ended |-> r.ended]
    /\ prev' = Snapshot(pomo, menu_state, menu_selection)

(***************************************************************************)
(* App::run: one iteration of the loop, by the event received.             *)
(***************************************************************************)
RecvKey(code) ==
    /\ ~exit
    /\ handle_key_event(code)
    /\ last' = [ev |-> code, ended |-> FALSE]
    /\ prev' = Snapshot(pomo, menu_state, menu_selection)
    /\ UNCHANGED sound_files

RecvTick ==
    /\ ~exit
    /\ handle_tick
    /\ UNCHANGED sound_files

(***************************************************************************)
(* App::new.  The caller may use the public App::start_or_pause before     *)
(* App::run, so the timer starts Paused or Running; the engine's initial   *)
(* auto_start is not fixed by app.rs and is either value.  sound_path 0 is *)
(* the path App::new was given; i >= 1 is the audio file i of sounds/.     *)
(***************************************************************************)
InitApp ==
    /\ \E work_min \in InitMinutes, break_min \in InitMinutes,
          auto \in BOOLEAN, started \in BOOLEAN :
          LET p == Pomodoro_new(<<work_min, 0>>, <<break_min, 0>>, 0, auto)
          IN pomo = IF started THEN start_or_pause(p) ELSE p
    /\ exit = FALSE
    /\ menu_state = "None"
    /\ menu_selection = 0
    /\ last = [ev |-> "none", ended |-> FALSE]

\* The configuration of the timer: what the menus set.
Config(p) ==
    [work_duration  |-> p.work_duration,
     break_duration |-> p.break_duration,
     auto_start     |-> p.auto_start,
     sound_path     |-> p.sound_path]

\* No round trip is under way.
NoTrip == [stage |-> 0, config |-> <<>>]

\* No event: the value of cur before the first rx.recv().
NoEvent == [ev |-> "none", seq |-> 0, behind |-> 0]

\* The channel is empty and the Dispatcher is at the top of its loop.
BusIdle ==
    /\ chan = <<>>
    /\ pc = "top"
    /\ cur = NoEvent
    /\ draws = 0
    /\ last2 = [ev |-> "none", ended |-> FALSE]
    /\ nsent = 0
    /\ nrecv = 0

\* No Tick sent yet.
NoGap == [gap |-> -1, late |-> -1, prev_late |-> -1]

\* The thread of handle_inputs as it starts: last_tick = Instant::now().
SrcIdle ==
    /\ spc = "timeout"
    /\ elapsed = 0
    /\ timeout = 0
    /\ since_sent = -1
    /\ gap = NoGap
    /\ iter = <<>>

\* The variables of the further specifications, while they are not in use.
AuxIdle ==
    /\ trip = NoTrip
    /\ escs = 0
    /\ BusIdle
    /\ SrcIdle

\* The state after a key event, with the key.
CountStart(code, p, ms, sel) ==
    [key |-> code, pomo |-> p, menu_state |-> ms, menu_selection |-> sel]

Init ==
    /\ InitApp
    /\ sound_files \in SUBSET (1..MaxSounds)
    /\ prev = Snapshot(pomo, menu_state, menu_selection)
    /\ start = CountStart("none", pomo, menu_state, menu_selection)
    /\ n = 0
    /\ AuxIdle

(***************************************************************************)
(* The events the model explores: the bounds on the environment.           *)
(***************************************************************************)
ActiveRemaining(p) ==
    IF p.phase = "Work" THEN p.work_remaining ELSE p.break_remaining

InWindow ==
    LET s == ActiveRemaining(pomo)[2]
    IN s <= KeyWindow \/ s >= 60 - KeyWindow

KeyWithinBounds == InWindow

TickWithinBounds == menu_state = "None" \/ InWindow

WithinBounds ==
    \A d \in {pomo.work_duration, pomo.break_duration,
               pomo.work_remaining, pomo.break_remaining} :
        Secs(d) <= 60 * MaxMinutes

(***************************************************************************)
(* The application: every key and Tick event, in any order.                *)
(***************************************************************************)
KeyStep ==
    \E code \in KeyCode :
        /\ WithinBounds
        /\ KeyWithinBounds
        /\ RecvKey(code)
        /\ UNCHANGED <<start, n, aux>>

TickStep ==
    /\ WithinBounds
    /\ TickWithinBounds
    /\ RecvTick
    /\ UNCHANGED <<start, n, aux>>

Next == KeyStep \/ TickStep

Spec == Init /\ [][Next]_vars

(***************************************************************************)
(* The counting specification: the same handlers, with the history of the  *)
(* Tick events handled since the last key event.  Tick events are handled  *)
(* at any time, also with a menu open.                                     *)
(***************************************************************************)
CountKeyCode == {"s", "c", "r", "Down", "Esc", "Enter"}

InitCount ==
    /\ InitApp
    /\ sound_files = {}
    /\ prev = Snapshot(pomo, menu_state, menu_selection)
    /\ start = CountStart("none", pomo, menu_state, menu_selection)
    /\ n = 0
    /\ AuxIdle

CountKeyStep ==
    \E code \in CountKeyCode :
        /\ WithinBounds
        /\ KeyWithinBounds
        /\ RecvKey(code)
        /\ start' = CountStart(code, pomo', menu_state', menu_selection')
        /\ n' = 0
        /\ UNCHANGED aux

\* n counts up to one more than the seconds a Running countdown had after the
\* last key event, and up to MaxIdleTicks when the timer was Paused then.
CountCap ==
    IF start.pomo.run_state = "Running"
    THEN Secs(ActiveRemaining(start.pomo)) + 1
    ELSE MaxIdleTicks

CountTickStep ==
    /\ WithinBounds
    /\ RecvTick
    /\ n' = IF n < CountCap THEN n + 1 ELSE n
    /\ UNCHANGED <<start, aux>>

NextCount == CountKeyStep \/ CountTickStep

SpecCount == InitCount /\ [][NextCount]_vars

(***************************************************************************)
(* The zero-minutes specification: the application of Spec, constructed    *)
(* with durations from 0 minutes.                                          *)
(***************************************************************************)
\* Mutant: App::new passes 60 as the seconds of the durations.
InitZero_sixty_seconds ==
    /\ \E work_min \in 0..MaxZeroMinutes, break_min \in 0..MaxZeroMinutes,
          auto \in BOOLEAN, started \in BOOLEAN :
          LET p == Pomodoro_new(<<work_min, 60>>, <<break_min, 60>>, 0, auto)
          IN pomo = IF started THEN start_or_pause(p) ELSE p
    /\ exit = FALSE
    /\ menu_state = "None"
    /\ menu_selection = 0
    /\ last = [ev |-> "none", ended |-> FALSE]
    /\ sound_files = {}
    /\ prev = Snapshot(pomo, menu_state, menu_selection)
    /\ start = CountStart("none", pomo, menu_state, menu_selection)
    /\ n = 0
    /\ AuxIdle

InitZero ==
    /\ \E work_min \in 0..MaxZeroMinutes, break_min \in 0..MaxZeroMinutes,
          auto \in BOOLEAN, started \in BOOLEAN :
          LET p == Pomodoro_new(<<work_min, 0>>, <<break_min, 0>>, 0, auto)
          IN pomo = IF started THEN start_or_pause(p) ELSE p
    /\ exit = FALSE
    /\ menu_state = "None"
    /\ menu_selection = 0
    /\ last = [ev |-> "none", ended |-> FALSE]
    /\ sound_files = {}
    /\ prev = Snapshot(pomo, menu_state, menu_selection)
    /\ start = CountStart("none", pomo, menu_state, menu_selection)
    /\ n = 0
    /\ AuxIdle

\* The keys handled in this specification.
ZeroKeyCode == {"s", "r", "c", "Down", "Enter", "Esc"}

ZeroKeyStep ==
    \E code \in ZeroKeyCode :
        /\ WithinBounds
        /\ KeyWithinBounds
        /\ RecvKey(code)
        /\ UNCHANGED <<start, n, aux>>

NextZero == ZeroKeyStep \/ TickStep

SpecZero == InitZero /\ [][NextZero]_vars

(***************************************************************************)
(* The Esc specification: the application of Spec, with the history of the *)
(* Esc keys handled in a row.                                              *)
(***************************************************************************)
EscKeyStep ==
    \E code \in KeyCode :
        /\ WithinBounds
        /\ KeyWithinBounds
        /\ RecvKey(code)
        /\ escs' = IF code # "Esc" THEN 0
                   ELSE IF escs < 3 THEN escs + 1 ELSE escs
        /\ UNCHANGED <<start, n, trip, busvars, srcvars>>

EscTickStep ==
    /\ WithinBounds
    /\ TickWithinBounds
    /\ RecvTick
    /\ escs' = 0
    /\ UNCHANGED <<start, n, trip, busvars, srcvars>>

NextEsc == EscKeyStep \/ EscTickStep

SpecEsc == Init /\ [][NextEsc]_vars

(***************************************************************************)
(* The sound specification: the application of Spec with no audio file or  *)
(* MaxTripSounds audio files in sounds/.                                   *)
(***************************************************************************)
SoundKeyCode == {"s", "c", "Up", "Down", "Enter", "Esc"}

\* sounds/ holds no audio file, or MaxTripSounds of them.
InitSound ==
    /\ InitApp
    /\ sound_files \in {{}, 1..MaxTripSounds}
    /\ prev = Snapshot(pomo, menu_state, menu_selection)
    /\ start = CountStart("none", pomo, menu_state, menu_selection)
    /\ n = 0
    /\ AuxIdle

SoundKeyStep ==
    \E code \in SoundKeyCode :
        /\ WithinBounds
        /\ KeyWithinBounds
        /\ RecvKey(code)
        /\ UNCHANGED <<start, n, aux>>

NextSound == SoundKeyStep \/ TickStep

SpecSound == InitSound /\ [][NextSound]_vars

(***************************************************************************)
(* The round-trip specification: the same handlers, with the history of    *)
(* the key sequence 'c', Up/Down to entry 3, Enter, Up/Down, Esc.          *)
(* trip.stage is 1 after 'c' handled with the menu closed (trip.config is  *)
(* the configuration before it), 2 after the Enter on entry 3, 3 after the *)
(* Esc, and 0 after any other key and after a work-session-ended Tick.     *)
(***************************************************************************)
TripAfterKey(code) ==
    IF code = "c" /\ menu_state = "None"
    THEN [stage |-> 1, config |-> Config(pomo)]
    ELSE IF trip.stage = 1 /\ code \in {"Up", "Down"} THEN trip
    ELSE IF trip.stage = 1 /\ code = "Enter" /\ menu_state = "MainMenu"
                             /\ menu_selection = 3
    THEN [trip EXCEPT !.stage = 2]
    ELSE IF trip.stage = 2 /\ code \in {"Up", "Down"} THEN trip
    ELSE IF trip.stage = 2 /\ code = "Esc" THEN [trip EXCEPT !.stage = 3]
    ELSE NoTrip

InitTrip ==
    /\ InitApp
    /\ sound_files \in SUBSET (1..MaxTripSounds)
    /\ prev = Snapshot(pomo, menu_state, menu_selection)
    /\ start = CountStart("none", pomo, menu_state, menu_selection)
    /\ n = 0
    /\ trip = NoTrip
    /\ escs = 0
    /\ BusIdle
    /\ SrcIdle

TripKeyStep ==
    \E code \in KeyCode :
        /\ WithinBounds
        /\ KeyWithinBounds
        /\ RecvKey(code)
        /\ trip' = TripAfterKey(code)
        /\ UNCHANGED <<start, n, escs, busvars, srcvars>>

TripTickStep ==
    /\ WithinBounds
    /\ InWindow
    /\ RecvTick
    /\ trip' = IF last'.ended THEN NoTrip ELSE trip
    /\ UNCHANGED <<start, n, escs, busvars, srcvars>>

NextTrip == TripKeyStep \/ TripTickStep

SpecTrip == InitTrip /\ [][NextTrip]_vars

(***************************************************************************)
(* The two-thread specification: the EventSource thread of                 *)
(* App::handle_inputs sends Key and Tick events on the channel, and the    *)
(* Dispatcher loop of App::run draws, receives one event and handles it.   *)
(* Each event carries, as history, its number (modulo SeqMod) and the      *)
(* number of events that were in the channel when it was sent.             *)
(***************************************************************************)
SeqMod == MaxQueue + 2

\* The keys the user presses in this specification.
BusKeyCode == {"s", "Esc"}

\* tx.send(event)
Send(ev) ==
    /\ chan' = Append(chan, [ev |-> ev, seq |-> nsent, behind |-> Len(chan)])
    /\ nsent' = (nsent + 1) % SeqMod
    /\ UNCHANGED <<appvars, sound_files, last, prev, start, n, trip, escs, srcvars,
                   pc, cur, draws, last2, nrecv>>

\* The thread of handle_inputs read a key and sends it.
SrcSendKey ==
    \E code \in BusKeyCode :
        /\ Len(chan) < MaxQueue
        /\ Send(code)

\* The thread of handle_inputs found the tick period elapsed and sends a Tick.
SrcSendTick ==
    /\ Len(chan) < MaxQueue
    /\ Send("Tick")

\* while !self.exit { terminal.draw(..)?; ..
DispDraw ==
    /\ pc = "top"
    /\ ~exit
    /\ draws' = draws + 1
    /\ pc' = "recv"
    /\ UNCHANGED <<appvars, sound_files, last, prev, start, n, trip, escs, srcvars,
                   chan, cur, last2, nsent, nrecv>>

\* terminal.draw(..)? failed: run returns the error.
DispDrawErr ==
    /\ pc = "top"
    /\ ~exit
    /\ draws' = draws + 1
    /\ pc' = "failed"
    /\ UNCHANGED <<appvars, sound_files, last, prev, start, n, trip, escs, srcvars,
                   chan, cur, last2, nsent, nrecv>>

\* Mutant: the loop draws once more before it returns.
DispReturn_draws ==
    /\ pc = "top"
    /\ exit
    /\ draws' = draws + 1
    /\ pc' = "returned"
    /\ UNCHANGED <<appvars, sound_files, last, prev, start, n, trip, escs, srcvars,
                   chan, cur, last2, nsent, nrecv>>

\* The loop condition is false: Ok(()).
DispReturn ==
    /\ pc = "top"
    /\ exit
    /\ pc' = "returned"
    /\ UNCHANGED <<appvars, sound_files, last, prev, start, n, trip, escs, srcvars,
                   chan, cur, draws, last2, nsent, nrecv>>

\* Mutant: recv returns the newest event of the channel.
DispRecv_newest ==
    /\ pc = "recv"
    /\ chan # <<>>
    /\ cur' = chan[Len(chan)]
    /\ chan' = SubSeq(chan, 1, Len(chan) - 1)
    /\ nrecv' = (nrecv + 1) % SeqMod
    /\ pc' = "handle"
    /\ UNCHANGED <<appvars, sound_files, last, prev, start, n, trip, escs, srcvars,
                   draws, last2, nsent>>

\* self.rx.recv(): blocks while the channel is empty, returns its oldest event.
DispRecv ==
    /\ pc = "recv"
    /\ chan # <<>>
    /\ cur' = Head(chan)
    /\ chan' = Tail(chan)
    /\ nrecv' = (nrecv + 1) % SeqMod
    /\ pc' = "handle"
    /\ UNCHANGED <<appvars, sound_files, last, prev, start, n, trip, escs, srcvars,
                   draws, last2, nsent>>

\* The arm of the match for the event received.
DispHandle ==
    /\ pc = "handle"
    /\ IF cur.ev = "Tick" THEN RecvTick ELSE RecvKey(cur.ev)
    /\ pc' = "top"
    /\ draws' = 0
    /\ last2' = last
    /\ UNCHANGED <<start, n, trip, escs, srcvars, chan, cur, nsent, nrecv>>

InitBus ==
    /\ \E auto \in BOOLEAN, started \in BOOLEAN :
          LET p == Pomodoro_new(<<BusMinutes, 0>>, <<BusMinutes, 0>>, 0, auto)
          IN pomo = IF started THEN start_or_pause(p) ELSE p
    /\ exit = FALSE
    /\ menu_state = "None"
    /\ menu_selection = 0
    /\ last = [ev |-> "none", ended |-> FALSE]
    /\ sound_files = {}
    /\ prev = Snapshot(pomo, menu_state, menu_selection)
    /\ start = CountStart("none", pomo, menu_state, menu_selection)
    /\ n = 0
    /\ trip = NoTrip
    /\ escs = 0
    /\ BusIdle
    /\ SrcIdle

EventSource == SrcSendKey \/ SrcSendTick

Dispatcher == DispDraw \/ DispDrawErr \/ DispReturn \/ DispRecv \/ DispHandle

NextBus == EventSource \/ Dispatcher

SpecBus == InitBus /\ [][NextBus]_vars

(***************************************************************************)
(* The EventSource specification: the loop of the thread of                *)
(* App::handle_inputs against a discrete clock.  The clock may advance     *)
(* between any two statements (the thread runs late), and input may be     *)
(* ready at any poll.  Times are kept relative to now and saturate at      *)
(* LateCap.                                                                *)
(***************************************************************************)
LateCap == tick_rate + MaxLate

\* The application is not looked at: it stays as App::new left it.
AppAtRest == UNCHANGED <<appvars, sound_files, last, prev, start, n, trip, escs, busvars>>

\* Duration::saturating_sub
saturating_sub(a, b) == IF a > b THEN a - b ELSE 0

\* One clock step passes.
ClockStep ==
    /\ elapsed' = IF elapsed < LateCap THEN elapsed + 1 ELSE elapsed
    /\ since_sent' = IF since_sent = -1 \/ since_sent = LateCap THEN since_sent
                      ELSE since_sent + 1
    /\ timeout' = IF spc = "poll" THEN saturating_sub(timeout, 1) ELSE timeout
    /\ UNCHANGED <<spc, gap, iter>>
    /\ AppAtRest

\* let timeout = tick_rate.saturating_sub(last_tick.elapsed());
SrcTimeout ==
    /\ spc = "timeout"
    /\ timeout' = saturating_sub(tick_rate, elapsed)
    /\ iter' = <<>>
    /\ spc' = "poll"
    /\ UNCHANGED <<elapsed, since_sent, gap>>
    /\ AppAtRest

\* event::poll(timeout) returns true: an input event is ready.
SrcPollReady ==
    /\ spc = "poll"
    /\ spc' = "read"
    /\ UNCHANGED <<elapsed, timeout, since_sent, gap, iter>>
    /\ AppAtRest

\* event::poll(timeout) returns false: the timeout has passed without input.
SrcPollTimeout ==
    /\ spc = "poll"
    /\ timeout = 0
    /\ spc' = "check"
    /\ UNCHANGED <<elapsed, timeout, since_sent, gap, iter>>
    /\ AppAtRest

\* Mutant: after a key is sent the loop goes on to the next poll at once.
SrcReadKey_continues ==
    /\ spc = "read"
    /\ iter' = Append(iter, "Key")
    /\ spc' = "timeout"
    /\ UNCHANGED <<elapsed, timeout, since_sent, gap>>
    /\ AppAtRest

\* event::read() gave a key: tx.send(Event::Key(key_event)).
SrcReadKey ==
    /\ spc = "read"
    /\ iter' = Append(iter, "Key")
    /\ spc' = "check"
    /\ UNCHANGED <<elapsed, timeout, since_sent, gap>>
    /\ AppAtRest

\* event::read() gave another event (mouse, resize, ..): `_ => ()`.
SrcReadOther ==
    /\ spc = "read"
    /\ spc' = "check"
    /\ UNCHANGED <<elapsed, timeout, since_sent, gap, iter>>
    /\ AppAtRest

\* if last_tick.elapsed() >= tick_rate
SrcCheck ==
    /\ spc = "check"
    /\ spc' = IF elapsed >= tick_rate THEN "send" ELSE "timeout"
    /\ UNCHANGED <<elapsed, timeout, since_sent, gap, iter>>
    /\ AppAtRest

\* tx.send(Event::Tick)
SrcTick ==
    /\ spc = "send"
    /\ iter' = Append(iter, "Tick")
    /\ gap' = [gap |-> since_sent, late |-> elapsed, prev_late |-> gap.late]
    /\ since_sent' = 0
    /\ spc' = "stamp"
    /\ UNCHANGED <<elapsed, timeout>>
    /\ AppAtRest

\* Mutant: the next deadline is one period after the previous deadline.
SrcStamp_catches_up ==
    /\ spc = "stamp"
    /\ elapsed' = saturating_sub(elapsed, tick_rate)
    /\ spc' = "timeout"
    /\ UNCHANGED <<timeout, since_sent, gap, iter>>
    /\ AppAtRest

\* last_tick = time::Instant::now();
SrcStamp ==
    /\ spc = "stamp"
    /\ elapsed' = 0
    /\ spc' = "timeout"
    /\ UNCHANGED <<timeout, since_sent, gap, iter>>
    /\ AppAtRest

InitSource ==
    /\ InitApp
    /\ sound_files = {}
    /\ prev = Snapshot(pomo, menu_state, menu_selection)
    /\ start = CountStart("none", pomo, menu_state, menu_selection)
    /\ n = 0
    /\ trip = NoTrip
    /\ escs = 0
    /\ BusIdle
    /\ SrcIdle

NextSource ==
    \/ ClockStep
    \/ SrcTimeout
    \/ SrcPollReady
    \/ SrcPollTimeout
    \/ SrcReadKey
    \/ SrcReadOther
    \/ SrcCheck
    \/ SrcTick
    \/ SrcStamp

SpecSource == InitSource /\ [][NextSource]_vars

(***************************************************************************)
(* The EventSource liveness specification: the same loop, where time goes  *)
(* on and the thread keeps running.  Input may be ready at every poll.     *)
(***************************************************************************)
\* The statements of the thread of handle_inputs.
SrcThread ==
    \/ SrcTimeout
    \/ SrcPollReady
    \/ SrcPollTimeout
    \/ SrcReadKey
    \/ SrcReadOther
    \/ SrcCheck
    \/ SrcTick
    \/ SrcStamp

NextSourceLive == ClockStep \/ SrcThread

SpecSourceLive ==
    InitSource /\ [][NextSourceLive]_vars /\ WF_vars(ClockStep) /\ WF_vars(SrcThread)

(***************************************************************************)
(* The liveness specification: the application constructed with BusMinutes *)
(* minutes, the keys of BusKeyCode, and Tick events handled again and      *)
(* again: the EventSource thread sends a Tick every tick period and the    *)
(* Dispatcher loop handles every event it receives, until the exit flag is *)
(* set.  start is the state after the last key event.                      *)
(***************************************************************************)
LiveKeyStep ==
    \E code \in BusKeyCode :
        /\ RecvKey(code)
        /\ start' = CountStart(code, pomo', menu_state', menu_selection')
        /\ UNCHANGED <<n, aux>>

LiveTickStep ==
    /\ RecvTick
    /\ UNCHANGED <<start, n, aux>>

NextLive == LiveKeyStep \/ LiveTickStep

SpecLive == InitBus /\ [][NextLive]_vars /\ WF_vars(LiveTickStep)

(***************************************************************************)
(* Properties.                                                             *)
(***************************************************************************)

\* C1 (SpecCount): starting in phase Work, Running, with work_remaining worth
\* T >= 1 seconds, and handling only Tick events, the first check_and_switch()
\* that returns true is the T-th: before it no Tick changes phase, menu_state or
\* menu_selection and each takes one second off; after the T-th, phase = Break,
\* RunState = Paused, menu_state = ExtendWorkSession and menu_selection = 0.
C1_FirstWorkEndTick ==
    LET T == Secs(start.pomo.work_remaining) IN
    (start.pomo.phase = "Work" /\ start.pomo.run_state = "Running" /\ T >= 1) =>
        /\ n < T =>
              /\ ~last.ended
              /\ pomo.phase = "Work"
              /\ pomo.run_state = "Running"
              /\ Secs(pomo.work_remaining) = T - n
              /\ menu_state = start.menu_state
              /\ menu_selection = start.menu_selection
        /\ n = T =>
              /\ last = [ev |-> "Tick", ended |-> TRUE]
              /\ pomo.phase = "Break"
              /\ pomo.run_state = "Paused"
              /\ menu_state = "ExtendWorkSession"
              /\ menu_selection = 0

\* The 120th Tick of a work countdown of (2,0) has ended the work session.
C1_Witness ==
    /\ start.pomo.phase = "Work"
    /\ start.pomo.run_state = "Running"
    /\ start.pomo.work_remaining = <<2, 0>>
    /\ n = 120
    /\ last.ended
    /\ menu_state = "ExtendWorkSession"

\* C2 (Spec): a Tick event calls check_and_switch() whatever menu is open, so a
\* Running countdown loses a second (or crosses its phase boundary) also with a
\* menu open; when the call reports the work session ended, menu_state becomes
\* ExtendWorkSession and menu_selection 0 whatever they were, and otherwise the
\* Tick leaves both alone.
C2_TickReachesTimerInAnyMenu ==
    last.ev = "Tick" =>
        /\ pomo = check_and_switch(prev.pomo).pomo
        /\ last.ended = check_and_switch(prev.pomo).ended
        /\ prev.pomo.run_state = "Running" =>
              \/ pomo.phase # prev.pomo.phase
              \/ Secs(ActiveRemaining(pomo)) = Secs(ActiveRemaining(prev.pomo)) - 1
        /\ last.ended =>
              /\ menu_state = "ExtendWorkSession"
              /\ menu_selection = 0
        /\ ~last.ended =>
              /\ menu_state = prev.menu_state
              /\ menu_selection = prev.menu_selection

\* A Tick ended the work session while SelectBreakDuration was open at entry 5.
C2_Witness ==
    /\ last = [ev |-> "Tick", ended |-> TRUE]
    /\ prev.menu_state = "SelectBreakDuration"
    /\ prev.menu_selection = 5
    /\ menu_state = "ExtendWorkSession"
    /\ menu_selection = 0

\* The number of entries of a menu, as the design document lists them.
item_count(ms) ==
    CASE ms = "MainMenu" -> 5
      [] ms \in {"SelectWorkDuration", "SelectBreakDuration"} -> 11
      [] ms = "ExtendWorkSession" -> 12
      [] ms = "SelectSound" ->
            IF Cardinality(sound_files) > 1 THEN Cardinality(sound_files) ELSE 1
      [] OTHER -> 1

\* C3 (Spec): whenever a menu is open menu_selection is below the number of
\* entries of that menu (5, 11, 11, 12, or max(1, sound files)); Down never
\* raises it above the last entry and Up never takes it below 0.
C3_SelectionInRange ==
    /\ menu_selection >= 0
    /\ menu_state # "None" => menu_selection < item_count(menu_state)

\* Down was handled on the last entry of ExtendWorkSession and left it there.
C3_Witness ==
    /\ last.ev = "Down"
    /\ prev.menu_state = "ExtendWorkSession"
    /\ prev.menu_selection = 11
    /\ menu_state = "ExtendWorkSession"
    /\ menu_selection = 11

\* C4 as claimed (Spec): in every reachable state work_remaining <= work_duration
\* and break_remaining <= break_duration, as total seconds.
C4_RemainingWithinDuration ==
    /\ Secs(pomo.work_remaining) <= Secs(pomo.work_duration)
    /\ Secs(pomo.break_remaining) <= Secs(pomo.break_duration)

\* Enter on a preset in ExtendWorkSession was the event handled last.
ExtendedByLastEvent ==
    /\ last.ev = "Enter"
    /\ prev.menu_state = "ExtendWorkSession"
    /\ prev.menu_selection < PresetsLen

\* C4 as amended (Spec): break_remaining <= break_duration in every reachable
\* state; every event other than Enter on a preset in ExtendWorkSession keeps
\* work_remaining <= work_duration; that Enter sets work_remaining to (preset, 0)
\* whatever work_duration is; and work_remaining exceeds work_duration only in
\* phase Work and never exceeds the largest preset, (60, 0).
C4_RemainingWithinDurationUnlessExtended ==
    /\ Secs(pomo.break_remaining) <= Secs(pomo.break_duration)
    /\ (~ExtendedByLastEvent
          /\ Secs(prev.pomo.work_remaining) <= Secs(prev.pomo.work_duration))
        => Secs(pomo.work_remaining) <= Secs(pomo.work_duration)
    /\ ExtendedByLastEvent
        => pomo.work_remaining = <<Preset(prev.menu_selection), 0>>
    /\ Secs(pomo.work_remaining) > Secs(pomo.work_duration)
        => /\ pomo.phase = "Work"
           /\ Secs(pomo.work_remaining) <= 60 * Preset(PresetsLen - 1)

\* The work session was extended by 60 minutes over a work_duration of (2,0).
C4_Witness ==
    /\ ExtendedByLastEvent
    /\ pomo.work_duration = <<2, 0>>
    /\ pomo.work_remaining = <<60, 0>>

\* C5 (Spec): Enter in ExtendWorkSession on preset index i (0..10) sets phase =
\* Work, work_remaining = (DURATION_PRESETS[i], 0), RunState = Running and
\* menu_state = None, and changes no other field of the timer (work_duration,
\* break_duration, break_remaining, auto_start, sound_path).
C5_ExtendByPreset ==
    (last.ev = "Enter" /\ prev.menu_state = "ExtendWorkSession"
                       /\ prev.menu_selection \in 0..10) =>
        /\ pomo.phase = "Work"
        /\ pomo.work_remaining = <<DURATION_PRESETS[prev.menu_selection + 1], 0>>
        /\ pomo.run_state = "Running"
        /\ menu_state = "None"
        /\ pomo.work_duration = prev.pomo.work_duration
        /\ pomo.break_duration = prev.pomo.break_duration
        /\ pomo.break_remaining = prev.pomo.break_remaining
        /\ pomo.auto_start = prev.pomo.auto_start
        /\ pomo.sound_path = prev.pomo.sound_path

\* Enter on preset index 2 extended the session to (4,0).
C5_Witness ==
    /\ last.ev = "Enter"
    /\ prev.menu_state = "ExtendWorkSession"
    /\ prev.menu_selection = 2
    /\ pomo.work_remaining = <<4, 0>>
    /\ pomo.run_state = "Running"

\* C6 (Spec): in ExtendWorkSession, Enter on entry 11 ("start break") and Esc
\* on any entry lead to the same timer and menu state: phase = Break, RunState =
\* Running, menu_state = None, every duration and remaining value unchanged.
C6_StartBreakByEnterOrEsc ==
    (prev.menu_state = "ExtendWorkSession"
        /\ (last.ev = "Esc" \/ (last.ev = "Enter" /\ prev.menu_selection = 11))) =>
        /\ pomo.phase = "Break"
        /\ pomo.run_state = "Running"
        /\ menu_state = "None"
        /\ pomo = [prev.pomo EXCEPT !.run_state = "Running"]

\* Enter on the "start break" entry started the break.
C6_Witness ==
    /\ last.ev = "Enter"
    /\ prev.menu_state = "ExtendWorkSession"
    /\ prev.menu_selection = 11
    /\ pomo.phase = "Break"
    /\ pomo.run_state = "Running"

\* C7 (Spec): the Tick that takes a Running break's break_remaining to zero
\* gives phase = Work, work_remaining = work_duration, break_remaining =
\* break_duration, RunState = Running if auto_start and Paused if not, and
\* leaves menu_state and menu_selection as they were.
C7_BreakEnd ==
    (last.ev = "Tick" /\ prev.pomo.phase = "Break"
                      /\ prev.pomo.run_state = "Running"
                      /\ Secs(prev.pomo.break_remaining) = 1) =>
        /\ pomo.phase = "Work"
        /\ pomo.work_remaining = pomo.work_duration
        /\ pomo.break_remaining = pomo.break_duration
        /\ pomo.run_state = IF prev.pomo.auto_start THEN "Running" ELSE "Paused"
        /\ pomo.work_duration = prev.pomo.work_duration
        /\ pomo.break_duration = prev.pomo.break_duration
        /\ pomo.auto_start = prev.pomo.auto_start
        /\ ~last.ended
        /\ menu_state = prev.menu_state
        /\ menu_selection = prev.menu_selection

\* A break ended with auto_start on while the main menu was open.
C7_Witness ==
    /\ last.ev = "Tick"
    /\ prev.pomo.phase = "Break"
    /\ prev.pomo.break_remaining = <<0, 1>>
    /\ prev.pomo.auto_start
    /\ prev.menu_state = "MainMenu"
    /\ pomo.phase = "Work"
    /\ pomo.run_state = "Running"
    /\ menu_state = "MainMenu"

\* C8 (Spec): Enter in SelectWorkDuration on preset index i sets work_duration
\* and work_remaining to (DURATION_PRESETS[i], 0) whatever the countdown was,
\* changes no other field of the timer, and leaves menu_state = MainMenu and
\* menu_selection = 0; Enter in SelectBreakDuration does the same to
\* break_duration and break_remaining.
C8_CommitDuration ==
    /\ (last.ev = "Enter" /\ prev.menu_state = "SelectWorkDuration"
                          /\ prev.menu_selection \in 0..10) =>
          /\ pomo = [prev.pomo EXCEPT
                        !.work_duration = <<DURATION_PRESETS[prev.menu_selection + 1], 0>>,
                        !.work_remaining = <<DURATION_PRESETS[prev.menu_selection + 1], 0>>]
          /\ menu_state = "MainMenu"
          /\ menu_selection = 0
    /\ (last.ev = "Enter" /\ prev.menu_state = "SelectBreakDuration"
                          /\ prev.menu_selection \in 0..10) =>
          /\ pomo = [prev.pomo EXCEPT
                        !.break_duration = <<DURATION_PRESETS[prev.menu_selection + 1], 0>>,
                        !.break_remaining = <<DURATION_PRESETS[prev.menu_selection + 1], 0>>]
          /\ menu_state = "MainMenu"
          /\ menu_selection = 0

\* A work duration of 10 minutes was committed in the middle of a countdown.
C8_Witness ==
    /\ last.ev = "Enter"
    /\ prev.menu_state = "SelectWorkDuration"
    /\ prev.menu_selection = 4
    /\ prev.pomo.work_remaining # prev.pomo.work_duration
    /\ prev.pomo.run_state = "Running"
    /\ pomo.work_duration = <<10, 0>>
    /\ pomo.work_remaining = <<10, 0>>

\* C9 (SpecCount): 'r' handled with the menu closed sets work_remaining =
\* work_duration and break_remaining = break_duration, forces RunState = Paused
\* and keeps phase and the durations; the Tick events handled after it, however
\* many, change neither the timer nor menu_state and menu_selection.
C9_ResetThenIdleTicks ==
    (start.key = "r" /\ start.menu_state = "None") =>
        /\ start.pomo.work_remaining = start.pomo.work_duration
        /\ start.pomo.break_remaining = start.pomo.break_duration
        /\ start.pomo.run_state = "Paused"
        /\ n = 0 =>
              /\ last.ev = "r"
              /\ prev.menu_state = "None"
              /\ pomo = [prev.pomo EXCEPT
                            !.work_remaining = prev.pomo.work_duration,
                            !.break_remaining = prev.pomo.break_duration,
                            !.run_state = "Paused"]
        /\ pomo = start.pomo
        /\ menu_state = start.menu_state
        /\ menu_selection = start.menu_selection

\* Two Ticks were handled after a reset in the Break phase.
C9_Witness ==
    /\ start.key = "r"
    /\ start.menu_state = "None"
    /\ pomo.phase = "Break"
    /\ last.ev = "Tick"
    /\ n = 2

\* C10 (Spec): with a menu open, the keys 's', 'r', 'c' and 'q' change nothing
\* (timer, menu_state, menu_selection, exit flag); the exit flag is set only by
\* 'q' or Esc handled with the menu closed.
C10_HotkeysDisabledInMenu ==
    /\ (last.ev \in {"s", "r", "c", "q"} /\ prev.menu_state # "None") =>
          /\ pomo = prev.pomo
          /\ menu_state = prev.menu_state
          /\ menu_selection = prev.menu_selection
          /\ ~exit
    /\ exit => (last.ev \in {"q", "Esc"} /\ prev.menu_state = "None")

\* 'q' was handled with the main menu open and the loop goes on.
C10_Witness ==
    /\ last.ev = "q"
    /\ prev.menu_state = "MainMenu"
    /\ menu_state = "MainMenu"
    /\ ~exit

\* Enter was handled in MainMenu and changed menu_state.
MainMenuEnterChangedState ==
    /\ last.ev = "Enter"
    /\ prev.menu_state = "MainMenu"
    /\ menu_state # "MainMenu"

\* C11 as claimed (Spec): whenever Enter in MainMenu changes menu_state (entry 0,
\* 1, 3 or 4), menu_selection is 0 in the resulting state.
C11_MainMenuEnterResetsSelection ==
    MainMenuEnterChangedState => menu_selection = 0

\* C11 as amended (Spec): Enter in MainMenu on entry 0, 1 or 3 opens
\* SelectWorkDuration, SelectBreakDuration or SelectSound with menu_selection = 0;
\* on entry 4 it closes the menu (None) and leaves menu_selection at 4; on entry
\* 2 it changes neither menu_state nor menu_selection.  menu_selection is 0
\* whenever an event has opened a menu (changed menu_state to one that is not None).
C11_MainMenuEnterResetsSelectionOfSubmenu ==
    /\ (last.ev = "Enter" /\ prev.menu_state = "MainMenu") =>
          /\ prev.menu_selection = 0 =>
                (menu_state = "SelectWorkDuration" /\ menu_selection = 0)
          /\ prev.menu_selection = 1 =>
                (menu_state = "SelectBreakDuration" /\ menu_selection = 0)
          /\ prev.menu_selection = 2 =>
                (menu_state = "MainMenu" /\ menu_selection = 2)
          /\ prev.menu_selection = 3 =>
                (menu_state = "SelectSound" /\ menu_selection = 0)
          /\ prev.menu_selection = 4 =>
                (menu_state = "None" /\ menu_selection = 4)
    /\ (menu_state # prev.menu_state /\ menu_state # "None") => menu_selection = 0

\* Enter on "Back" closed the main menu and the selection is still 4.
C11_Witness ==
    /\ MainMenuEnterChangedState
    /\ prev.menu_selection = 4
    /\ menu_state = "None"
    /\ menu_selection = 4

\* C12 (SpecTrip): from menu closed, the key sequence 'c', Up/Down to entry 3 of
\* MainMenu, Enter (which opens SelectSound), any number of Up/Down, Esc ends
\* with menu_state = MainMenu and menu_selection = 0, and with work_duration,
\* break_duration, auto_start and sound_path as they were before the 'c'; on
\* the way the menu is MainMenu, then SelectSound, with that same configuration.
C12_SelectSoundRoundTrip ==
    /\ trip.stage = 1 =>
          (menu_state = "MainMenu" /\ Config(pomo) = trip.config)
    /\ trip.stage = 2 =>
          (menu_state = "SelectSound" /\ Config(pomo) = trip.config)
    /\ trip.stage = 3 =>
          /\ menu_state = "MainMenu"
          /\ menu_selection = 0
          /\ pomo.work_duration = trip.config.work_duration
          /\ pomo.break_duration = trip.config.break_duration
          /\ pomo.auto_start = trip.config.auto_start
          /\ pomo.sound_path = trip.config.sound_path

\* Esc ended the round trip on the second of two sound files.
C12_Witness ==
    /\ trip.stage = 3
    /\ last.ev = "Esc"
    /\ prev.menu_state = "SelectSound"
    /\ prev.menu_selection = 1
    /\ menu_state = "MainMenu"
    /\ menu_selection = 0

\* The state the handler of event ev gives from the state s (the keys of BusKeyCode).
SequentialResult(s, ev) ==
    CASE ev = "Tick" ->
            LET r == check_and_switch(s.pomo) IN
            IF r.ended THEN Snapshot(r.pomo, "ExtendWorkSession", 0)
            ELSE Snapshot(r.pomo, s.menu_state, s.menu_selection)
      [] ev = "s" ->
            IF s.menu_state = "None"
            THEN Snapshot(start_or_pause(s.pomo), s.menu_state, s.menu_selection)
            ELSE s
      [] ev = "Esc" ->
            IF s.menu_state = "ExtendWorkSession"
            THEN Snapshot(start_or_pause(s.pomo), "None", s.menu_selection)
            ELSE IF s.menu_state = "MainMenu"
            THEN Snapshot(s.pomo, "None", s.menu_selection)
            ELSE IF s.menu_state = "None" THEN s
            ELSE Snapshot(s.pomo, "MainMenu", 0)
      [] OTHER -> s

\* The channel holds, oldest first, exactly the events sent and not yet
\* received, and the event being handled is the one sent just before them.
ChannelInSendOrder ==
    /\ \A i \in 1..Len(chan) : chan[i].seq = (nrecv + i - 1) % SeqMod
    /\ nsent = (nrecv + Len(chan)) % SeqMod
    /\ pc = "handle" => cur.seq = (nrecv + SeqMod - 1) % SeqMod

\* The state is the one the handler of the last event gives from the state
\* in which that event was received.
HandledSequentially ==
    last.ev # "none" =>
        /\ pc # "handle" => last.ev = cur.ev
        /\ Snapshot(pomo, menu_state, menu_selection) = SequentialResult(prev, last.ev)
        /\ exit = (last.ev = "Esc" /\ prev.menu_state = "None")
        /\ (last2 = [ev |-> "Tick", ended |-> TRUE] /\ last.ev = "s") =>
              /\ pomo.phase = "Break"
              /\ pomo.run_state = "Paused"
              /\ menu_state = "ExtendWorkSession"
        /\ (last2.ev = "s" /\ last.ev = "Tick" /\ prev.menu_state = "None"
               /\ prev.pomo.run_state = "Paused") =>
              /\ ~last.ended
              /\ pomo = prev.pomo
              /\ menu_state = "None"

\* C13 (SpecBus): the Dispatcher receives the events in the order the
\* EventSource thread sent them, none lost, duplicated or overtaken, and only
\* at its recv, after the handler of the previous event has finished; so a Key
\* and a phase-boundary Tick sent in either order give the state of the two
\* handlers applied one after the other in send order; and no step of the
\* EventSource thread changes the timer, the menu or the exit flag.
C13_EventsHandledInSendOrder ==
    /\ [](ChannelInSendOrder /\ HandledSequentially)
    /\ [][EventSource => UNCHANGED <<appvars, sound_files, pc, cur>>]_vars
    /\ [][cur' # cur => (pc = "recv" /\ cur' = Head(chan) /\ chan' = Tail(chan))]_vars

\* The key 's' was sent while the Tick that ended the work session was still
\* in the channel, and was handled after it, with the extend menu open.
C13_Witness ==
    /\ pc = "top"
    /\ last2 = [ev |-> "Tick", ended |-> TRUE]
    /\ last.ev = "s"
    /\ cur.behind >= 1
    /\ prev.menu_state = "ExtendWorkSession"
    /\ menu_state = "ExtendWorkSession"
    /\ pomo.run_state = "Paused"

\* C14 as claimed (SpecBus): every handled event, the one that sets the exit
\* flag included, is followed by exactly one draw before the next event is
\* received or the loop returns, and no draw happens before an event was handled.
C14_OneDrawAfterEachEvent ==
    /\ draws > 0 => last.ev # "none"
    /\ (pc \in {"recv", "handle"} /\ last.ev # "none") => draws = 1
    /\ pc = "returned" => draws = 1

\* C14 as amended (SpecBus): every iteration of the loop issues exactly one
\* draw and then receives and handles exactly one event.  The first draw
\* comes before any event is handled; every handled event that leaves the
\* exit flag false is followed by exactly one draw before the next event is
\* received; the event that sets the exit flag is followed by no draw: the
\* loop returns.
C14_OneDrawBeforeEachEvent ==
    /\ pc \in {"recv", "handle", "failed"} => draws = 1
    /\ pc \in {"top", "returned"} => draws = 0
    /\ pc = "returned" => exit
    /\ (pc = "top" /\ last.ev = "none") => ~exit
    /\ exit => pc \in {"top", "returned"}

\* The loop has returned after the Esc that set the exit flag, without a draw.
C14_Witness ==
    /\ pc = "returned"
    /\ exit
    /\ last.ev = "Esc"
    /\ draws = 0

\* C15 (SpecSource): any two consecutive Tick events are sent at least one
\* tick period apart.  A Tick is sent only when a tick period has passed since
\* last_tick, and last_tick is then set to a time not before the sending, so
\* the next deadline is at least one period after it: after an iteration that
\* ran late no second Tick follows at once, and no iteration sends two Ticks.
C15_TicksAtLeastAPeriodApart ==
    /\ gap.gap # -1 => gap.gap >= tick_rate
    /\ spc = "send" => elapsed >= tick_rate
    /\ (since_sent # -1 /\ spc # "stamp") => elapsed <= since_sent
    /\ (since_sent # -1 /\ since_sent < tick_rate) => spc # "send"
    /\ Len(SelectSeq(iter, LAMBDA e : e = "Tick")) <= 1

\* A Tick was sent late, and the next one exactly one tick period after it.
C15_Witness ==
    /\ spc = "stamp"
    /\ gap.prev_late > tick_rate
    /\ gap.gap = tick_rate
    /\ since_sent = 0

\* A (minutes, seconds) pair with minutes >= 0 and seconds in 0..59.
InRange(d) == d[1] >= 0 /\ d[2] \in 0..59

C17_ThreeEscsExit ==
    /\ escs >= 1 => (exit \/ menu_state \in {"MainMenu", "None"})
    /\ escs >= 2 => (exit \/ menu_state = "None")
    /\ escs >= 3 => exit
    /\ (escs >= 1 /\ prev.menu_state = "ExtendWorkSession") => menu_state = "None"
    /\ exit =>
          /\ last.ev \in {"Esc", "q"}
          /\ prev.menu_state = "None"
          /\ Snapshot(pomo, menu_state, menu_selection) = prev

\* The third Esc in a row set the exit flag: the first found a submenu open.
C17_Witness ==
    /\ escs = 3
    /\ exit
    /\ last.ev = "Esc"
    /\ prev.menu_state = "None"

\* The i-th audio file in sorted order (i from 0): the one with i files before it.
ith_sound_file(i) ==
    CHOOSE f \in sound_files : Cardinality({g \in sound_files : g < f}) = i

\* C18 (SpecSound): with no audio file in sounds/, SelectSound can be opened
\* and is inert: Up, Down and Enter handled in it leave menu_state =
\* SelectSound, menu_selection = 0 and the timer (sound_path included)
\* unchanged, and the menu is left only by Esc (to MainMenu, selection 0) or
\* by a work-session-ended Tick (to ExtendWorkSession, selection 0).  With at
\* least one file, Enter on entry i < number of files sets sound_path to the
\* i-th file in sorted order, changes nothing else of the timer, and goes
\* back to MainMenu with selection 0.
C18_SelectSoundInertWithoutFiles ==
    /\ (sound_files = {} /\ prev.menu_state = "SelectSound"
                         /\ last.ev \in {"Up", "Down", "Enter"}) =>
          /\ menu_state = "SelectSound"
          /\ prev.menu_selection = 0
          /\ menu_selection = 0
          /\ pomo = prev.pomo
    /\ (sound_files = {} /\ prev.menu_state = "SelectSound"
                         /\ menu_state # "SelectSound") =>
          \/ last.ev = "Esc" /\ menu_state = "MainMenu" /\ menu_selection = 0
          \/ /\ last = [ev |-> "Tick", ended |-> TRUE]
             /\ menu_state = "ExtendWorkSession"
             /\ menu_selection = 0
    /\ (sound_files # {} /\ prev.menu_state = "SelectSound" /\ last.ev = "Enter"
                         /\ prev.menu_selection < Cardinality(sound_files)) =>
          /\ pomo = [prev.pomo EXCEPT !.sound_path = ith_sound_file(prev.menu_selection)]
          /\ menu_state = "MainMenu"
          /\ menu_selection = 0

\* Enter was handled in SelectSound with no audio file, and nothing changed.
C18_Witness ==
    /\ sound_files = {}
    /\ last.ev = "Enter"
    /\ prev.menu_state = "SelectSound"
    /\ menu_state = "SelectSound"
    /\ menu_selection = 0
    /\ pomo = prev.pomo

\* C19 (Spec): in every reachable state with menu_state = ExtendWorkSession,
\* phase = Break, RunState = Paused and work_remaining = (0,0).  The menu is
\* entered only by a work-session-ended Tick, and while it is open no Tick and
\* no key other than Enter or Esc changes the timer or closes the menu; so the
\* start_or_pause() of the "start break" choice (Enter on entry 11, or Esc)
\* finds the timer Paused and leaves it Running.
C19_ExtendMenuFindsTimerPaused ==
    /\ menu_state = "ExtendWorkSession" =>
          /\ pomo.phase = "Break"
          /\ pomo.run_state = "Paused"
          /\ pomo.work_remaining = <<0, 0>>
    /\ (menu_state = "ExtendWorkSession" /\ prev.menu_state # "ExtendWorkSession") =>
          last = [ev |-> "Tick", ended |-> TRUE]
    /\ (prev.menu_state = "ExtendWorkSession" /\ last.ev \notin {"Enter", "Esc"}) =>
          /\ pomo = prev.pomo
          /\ menu_state = "ExtendWorkSession"
    /\ (prev.menu_state = "ExtendWorkSession"
           /\ (last.ev = "Esc" \/ (last.ev = "Enter" /\ prev.menu_selection = PresetsLen))) =>
          /\ prev.pomo.run_state = "Paused"
          /\ pomo.run_state = "Running"

\* A Tick was handled with the extend menu open and changed nothing.
C19_Witness ==
    /\ last.ev = "Tick"
    /\ prev.menu_state = "ExtendWorkSession"
    /\ menu_state = "ExtendWorkSession"
    /\ pomo = prev.pomo
    /\ pomo.run_state = "Paused"
    /\ pomo.work_remaining = <<0, 0>>

\* The timer has come to rest since the last key event: a work session ended
\* and the extend menu is open, or a break ended with auto_start off.
PausedAtRest ==
    /\ pomo.run_state = "Paused"
    /\ \/ /\ menu_state = "ExtendWorkSession"
          /\ pomo.phase = "Break"
       \/ /\ pomo.phase = "Work"
          /\ ~pomo.auto_start
          /\ start.pomo.phase = "Break"
          /\ pomo.work_remaining = pomo.work_duration
          /\ pomo.break_remaining = pomo.break_duration

\* C20 (SpecLive): from every reachable state with RunState = Running, when
\* Tick events keep being handled and no key event is handled, the timer
\* reaches RunState = Paused, by the end of a break with auto_start off or by
\* the end of a work session, which opens the ExtendWorkSession menu; from
\* then on the Tick events change neither the timer nor the menu.  With
\* auto_start on, the work session that follows the break ends Paused as well.
C20_RunningTimerComesToRest ==
    /\ (pomo.run_state = "Running" /\ last.ev = "Tick")
          ~> (PausedAtRest \/ last.ev # "Tick")
    /\ [][(pomo.run_state = "Paused" /\ last'.ev = "Tick") =>
              UNCHANGED <<pomo, menu_state, menu_selection, exit>>]_vars
    /\ [](last = [ev |-> "Tick", ended |-> TRUE] =>
              (pomo.run_state = "Paused" /\ menu_state = "ExtendWorkSession"))

\* Since the last key a Running break with auto_start on has ended, and the
\* work session after it too: the timer is Paused with the extend menu open.
C20_Witness ==
    /\ start.pomo.phase = "Break"
    /\ start.pomo.run_state = "Running"
    /\ start.pomo.auto_start
    /\ last = [ev |-> "Tick", ended |-> TRUE]
    /\ pomo.phase = "Break"
    /\ pomo.run_state = "Paused"
    /\ menu_state = "ExtendWorkSession"

\* C21 (SpecSourceLive): key input cannot starve the Ticks.  Every iteration
\* of the loop, also one that has read and sent a Key, goes on to the test of
\* last_tick.elapsed(); when at least a tick period has passed since last_tick
\* (the time noted right after the last Tick was sent) that iteration sends a
\* Tick, after the Key if it sent one.  So Ticks are sent again and again,
\* also when input is ready at every poll.
C21_KeysDoNotStarveTicks ==
    /\ []<>(spc = "stamp")
    /\ [][(spc = "read" /\ spc' # spc) => spc' = "check"]_vars
    /\ [][(spc = "check" /\ elapsed >= tick_rate /\ spc' # spc) => spc' = "send"]_vars
    /\ [][(spc = "send" /\ spc' # spc) =>
              (iter \in {<<>>, <<"Key">>} /\ iter' = Append(iter, "Tick"))]_vars
    /\ [](iter \in {<<>>, <<"Key">>, <<"Tick">>, <<"Key", "Tick">>})

\* An iteration has read and sent a Key and then sent a Tick.
C21_Witness ==
    /\ spc = "stamp"
    /\ iter = <<"Key", "Tick">>
    /\ since_sent = 0

====
